---- MODULE Spec2Model ----
(***************************************************************************)
(* A model of streamlit_app.py: the Open-Meteo fetch and normalisation     *)
(* (get_weather), its time-boxed memoisation (st.cache_data(ttl=600)),     *)
(* and the render pass (main) that drives it from the session state.       *)
(*                                                                         *)
(* Time is counted in seconds.  An instant is a number of seconds since an *)
(* arbitrary origin in UTC; a zone-naive provider timestamp is the civil   *)
(* reading of a KST clock, which runs KSTOffset seconds ahead of UTC.      *)
(* Temperatures are fixed-point numbers in tenths of a degree.             *)
(***************************************************************************)
EXTENDS Integers, Sequences, FiniteSets, TLC

(* ------------------------------ bounds --------------------------------- *)

\* Longest hourly series the provider returns in the fetch specification.
MaxN == 24
\* Longest series enumerated in every order of three hours (duplicates included).
MaxPerm == 3
\* Largest refresh_count a session reaches.
MaxRefresh == 1
\* Number of clock steps of the application specification.
MaxTicks == 2

(* --------------------------- program constants ------------------------- *)

\* st.cache_data(ttl=600)
TTL == 600
\* .head(12)
HeadRows == 12
\* pytz.timezone("Asia/Seoul"): UTC+9, no daylight saving
KSTOffsetHours == 9

Hour == 60 * 60
KSTOffset == KSTOffsetHours * Hour
\* The clock of the application specification advances in half-TTL steps.
Step == TTL \div 2

(* ------------------------------ helpers -------------------------------- *)

Min(a, b) == IF a <= b THEN a ELSE b

Reverse(seq) == [i \in 1..Len(seq) |-> seq[Len(seq) + 1 - i]]

weathercode_to_text(code) ==
    CASE code = 0 -> "Clear"
      [] code = 1 -> "Mainly clear"
      [] code = 2 -> "Partly cloudy"
      [] code = 3 -> "Overcast"
      [] code = 45 -> "Fog"
      [] code = 48 -> "Depositing rime fog"
      [] code = 51 -> "Drizzle: Light"
      [] code = 53 -> "Drizzle: Moderate"
      [] code = 55 -> "Drizzle: Dense"
      [] code = 61 -> "Rain: Slight"
      [] code = 63 -> "Rain: Moderate"
      [] code = 65 -> "Rain: Heavy"
      [] code = 71 -> "Snow: Slight"
      [] code = 73 -> "Snow: Moderate"
      [] code = 75 -> "Snow: Heavy"
      [] code = 80 -> "Rain showers: Slight"
      [] code = 81 -> "Rain showers: Moderate"
      [] code = 82 -> "Rain showers: Violent"
      [] OTHER -> "Unknown"

\* c * 9 / 5 + 32 on tenths of a degree (exact for multiples of 0.5 degrees).
to_fahrenheit(c) == (c * 9) \div 5 + 320

(* ------------------------ the provider's response ---------------------- *)

HourlyKeys ==
    {"time", "temperature_2m", "precipitation_probability",
     "relativehumidity_2m", "windspeed_10m", "weathercode"}

\* An optional array of a JSON object: absent, or present with its values.
Absent == [some |-> FALSE, val |-> <<>>]
Present(s) == [some |-> TRUE, val |-> s]

\* An optional number: absent (or null), or present.
NoNumber == [some |-> FALSE, val |-> 0]
Number(v) == [some |-> TRUE, val |-> v]

\* dict.get(key, []) on the hourly object
HourlyGet(hourly, key) == IF hourly[key].some THEN hourly[key].val ELSE <<>>

\* current.get("temperature") on the current_weather object
CurrentGet(current) == current.temperature

(* ------------------------------ get_weather ---------------------------- *)

\* pd.to_datetime followed by tz_localize when the timestamps carry no zone:
\* a zone-naive civil KST reading becomes the instant KSTOffset earlier.
tz_localize(times, aware) ==
    IF aware THEN times ELSE [i \in DOMAIN times |-> times[i] - KSTOffset]

\* pd.DataFrame of six columns: raises ValueError unless all have one length.
DataFrame(time, temperature, precip_prob, humidity, windspeed, weathercode) ==
    LET n == Len(time)
    IN IF /\ Len(temperature) = n /\ Len(precip_prob) = n /\ Len(humidity) = n
          /\ Len(windspeed) = n /\ Len(weathercode) = n
       THEN [ok |-> TRUE,
             rows |-> [i \in 1..n |->
                        [time |-> time[i], temperature |-> temperature[i],
                         precip_prob |-> precip_prob[i], humidity |-> humidity[i],
                         windspeed |-> windspeed[i], weathercode |-> weathercode[i]]]]
       ELSE [ok |-> FALSE, rows |-> <<>>]

\* df.head(n)
head(df, n) == SubSeq(df, 1, Min(n, Len(df)))

\* A faulty variant: the rows strictly after now.
SelectAfterNow(df, now) ==
    LET After(r) == r.time > now IN SelectSeq(df, After)

\* A faulty variant: the rows at or after now, latest first.
SelectNewestFirst(df, now) ==
    LET AtOrAfter(r) == r.time >= now IN Reverse(SelectSeq(df, AtOrAfter))

\* df[df["time"] >= now_kst]
SelectFromNow(df, now) ==
    LET AtOrAfter(r) == r.time >= now IN SelectSeq(df, AtOrAfter)

\* A faulty variant: no fallback when no row is at or after now.
NextWindowNoFallback(df, now) == head(SelectFromNow(df, now), HeadRows)

\* The selection of the window: the rows at or after now, at most HeadRows of
\* them, and the first HeadRows rows of the frame when there are none.
NextWindow(df, now) ==
    LET df_next == head(SelectFromNow(df, now), HeadRows)
    IN IF df_next = <<>> THEN head(df, HeadRows) ELSE df_next

\* The body of get_weather after a successful HTTP exchange, at time now.
Normalize(data, now) ==
    LET hourly == data.hourly
        times == tz_localize(HourlyGet(hourly, "time"), data.aware)
        frame == DataFrame(times,
                           HourlyGet(hourly, "temperature_2m"),
                           HourlyGet(hourly, "precipitation_probability"),
                           HourlyGet(hourly, "relativehumidity_2m"),
                           HourlyGet(hourly, "windspeed_10m"),
                           HourlyGet(hourly, "weathercode"))
    IN IF frame.ok
       THEN [raised |-> FALSE, df |-> NextWindow(frame.rows, now),
             current |-> data.current_weather]
       ELSE [raised |-> TRUE, df |-> <<>>, current |-> data.current_weather]

(* ------------------------------- rendering ----------------------------- *)

NA == [na |-> TRUE, num |-> 0, suffix |-> ""]
Shown(num, suffix) == [na |-> FALSE, num |-> num, suffix |-> suffix]

\* The "Temperature" metric: the current temperature in the chosen unit.
TemperatureMetric(current, unit) ==
    LET current_temp == CurrentGet(current)
    IN IF ~current_temp.some THEN NA
       ELSE IF unit = "Fahrenheit" THEN Shown(to_fahrenheit(current_temp.val), "F")
       ELSE Shown(current_temp.val, "C")

\* A faulty variant: the lookup's default label for an empty window.
ConditionMetricNoGuard(df) ==
    IF df = <<>> THEN weathercode_to_text(-1) ELSE weathercode_to_text(df[1].weathercode)

\* The "Condition" metric: the label of the first row's weather code.
ConditionMetric(df) ==
    IF df = <<>> THEN "N/A" ELSE weathercode_to_text(df[1].weathercode)

\* The "Precip Prob (next hour)" metric: the first row's probability.
PrecipMetric(df) ==
    IF df = <<>> THEN NA ELSE Shown(df[1].precip_prob, "%")

\* A faulty variant: the pass goes on rendering after the error message.
ErrorViewNoReturn ==
    [error |-> TRUE, metrics |-> TRUE, chart |-> TRUE, table |-> TRUE,
     temperature |-> NA, condition |-> "N/A", precip |-> NA, df |-> <<>>]

\* What a pass shows after an error: the message, and nothing else.
ErrorView ==
    [error |-> TRUE, metrics |-> FALSE, chart |-> FALSE, table |-> FALSE,
     temperature |-> NA, condition |-> "", precip |-> NA, df |-> <<>>]

\* What a pass shows for a payload: the three metrics, the chart, the table.
RenderView(payload, unit) ==
    [error |-> FALSE, metrics |-> TRUE, chart |-> TRUE, table |-> TRUE,
     temperature |-> TemperatureMetric(payload.current, unit),
     condition |-> ConditionMetric(payload.df),
     precip |-> PrecipMetric(payload.df),
     df |-> payload.df]

(* --------------------- inputs: what the provider sends ----------------- *)

\* n zone-naive hourly timestamps from civil hour s (KST), ascending.
Run(n, s) == [i \in 1..n |-> KSTOffset + (s + i - 1) * Hour]

\* The same hours as instants, for timestamps that carry their zone.
AwareRun(n, s) == [i \in 1..n |-> (s + i - 1) * Hour]

CodeCycle == <<0, 3, 61, 99>>

\* The values of a hourly array of n entries, distinct from row to row.
Column(key, n) ==
    [i \in 1..n |->
        CASE key = "temperature_2m" -> 5 * i - 20
          [] key = "precipitation_probability" -> (7 * i) % 101
          [] key = "relativehumidity_2m" -> 40 + i
          [] key = "windspeed_10m" -> i
          [] OTHER -> CodeCycle[(i % Len(CodeCycle)) + 1]]

\* A JSON body: the hourly object without the omitted keys, the arrays
\* index-aligned with the time array, and the current_weather object.
Response(times, aware, omitted, current) ==
    [aware |-> aware,
     hourly |-> [k \in HourlyKeys |->
                   IF k \in omitted THEN Absent
                   ELSE IF k = "time" THEN Present(times)
                   ELSE Present(Column(k, Len(times)))],
     current_weather |-> current]

Currents ==
    {[temperature |-> NoNumber], [temperature |-> Number(215)],
     [temperature |-> Number(-50)]}

Runs == {Run(n, 0) : n \in 0..MaxN}

\* Every series of at most MaxPerm timestamps of three hours, in any order.
AnyOrder ==
    UNION {[1..n -> {KSTOffset + h * Hour : h \in 0..2}] : n \in 0..MaxPerm}

FetchResponses ==
    {Response(ts, FALSE, {}, c) : ts \in Runs \cup AnyOrder, c \in Currents}
    \cup {Response(Reverse(ts), FALSE, {}, [temperature |-> NoNumber]) : ts \in Runs}
    \cup {Response(AwareRun(n, 0), TRUE, {}, [temperature |-> NoNumber]) : n \in 0..MaxN}
    \cup {Response(Run(n, 0), FALSE, om, [temperature |-> Number(215)]) :
            n \in 0..2, om \in SUBSET HourlyKeys}

AppResponses == {Response(Run(3, 0), FALSE, {}, [temperature |-> Number(215)])}

NoData == Response(<<>>, FALSE, HourlyKeys, [temperature |-> NoNumber])

\* The outcome of requests.get and raise_for_status.
Failures == {[status |-> "timeout", data |-> NoData], [status |-> "http_error", data |-> NoData]}
Success(R) == {[status |-> "ok", data |-> d] : d \in R}
AppNet == Success(AppResponses) \cup Failures
FetchNet == Success(FetchResponses) \cup Failures

(* --------------------------------- state ------------------------------- *)

Seoul == [lat |-> 375665, lon |-> 1269780]
Busan == [lat |-> 351796, lon |-> 1290756]
Coords == {Seoul, Busan}
Keys == Coords \X (0..MaxRefresh)

NoClick == [some |-> FALSE, val |-> Seoul]
Click(c) == [some |-> TRUE, val |-> c]

VARIABLES
    clock,          \* the current instant
    session_state,  \* st.session_state: coords, refresh_count
    cache,          \* the entries of st.cache_data for get_weather, by key
    lastFetch,      \* history: the last HTTP request of each key
    pass            \* the render pass just made: its inputs and what it showed
                    \* (NoPass before the first pass, once time has moved on,
                    \* and when the page is opened anew)

vars == <<clock, session_state, cache, lastFetch, pass>>

EmptyPayload == [df |-> <<>>, current |-> [temperature |-> NoNumber]]
NoEntry == [some |-> FALSE, at |-> 0, value |-> EmptyPayload]
NoFetch == [some |-> FALSE, at |-> 0, returned |-> FALSE, frame |-> <<>>]

\* A faulty variant: an entry expires after half the ttl.
CacheHitHalfTtl(c, key, now) == c[key].some /\ now - c[key].at < TTL \div 2

\* A faulty variant: an entry never expires.
CacheHitNoExpiry(c, key, now) == c[key].some

\* An entry answers a call while it is younger than the ttl.
CacheHit(c, key, now) == c[key].some /\ now - c[key].at < TTL

CacheStore(c, key, now, payload) ==
    [c EXCEPT ![key] = [some |-> TRUE, at |-> now, value |-> payload]]

\* The rows of the full frame the response makes (history only).
FrameOf(data) ==
    LET hourly == data.hourly
    IN DataFrame(tz_localize(HourlyGet(hourly, "time"), data.aware),
                 HourlyGet(hourly, "temperature_2m"),
                 HourlyGet(hourly, "precipitation_probability"),
                 HourlyGet(hourly, "relativehumidity_2m"),
                 HourlyGet(hourly, "windspeed_10m"),
                 HourlyGet(hourly, "weathercode")).rows

\* A faulty variant: a failed call is memoised as an empty result.
get_weather_caching_failures(c, key, now, net) ==
    IF c[key].some /\ now - c[key].at < TTL
    THEN [requested |-> FALSE, raised |-> FALSE, payload |-> c[key].value,
          computed |-> c[key].at, cache |-> c]
    ELSE IF net.status # "ok"
    THEN [requested |-> TRUE, raised |-> TRUE, payload |-> EmptyPayload,
          computed |-> now,
          cache |-> [c EXCEPT ![key] = [some |-> TRUE, at |-> now, value |-> EmptyPayload]]]
    ELSE LET r == Normalize(net.data, now)
             payload == [df |-> r.df, current |-> r.current]
         IN [requested |-> TRUE, raised |-> r.raised, payload |-> payload,
             computed |-> now,
             cache |-> [c EXCEPT ![key] = [some |-> TRUE, at |-> now, value |-> payload]]]

\* A call of the memoised get_weather at time now, the network answering net
\* if it is asked: the entry is served, or the request is made and, when the
\* body returns, its result stored; an exception stores nothing.
get_weather(c, key, now, net) ==
    IF CacheHit(c, key, now)
    THEN [requested |-> FALSE, raised |-> FALSE, payload |-> c[key].value,
          computed |-> c[key].at, cache |-> c]
    ELSE IF net.status # "ok"
    THEN [requested |-> TRUE, raised |-> TRUE, payload |-> EmptyPayload,
          computed |-> now, cache |-> c]
    ELSE LET r == Normalize(net.data, now)
             payload == [df |-> r.df, current |-> r.current]
         IN IF r.raised
            THEN [requested |-> TRUE, raised |-> TRUE, payload |-> EmptyPayload,
                  computed |-> now, cache |-> c]
            ELSE [requested |-> TRUE, raised |-> FALSE, payload |-> payload,
                  computed |-> now, cache |-> CacheStore(c, key, now, payload)]

NoPass ==
    [ran |-> FALSE, unit |-> "Celsius", refresh |-> FALSE, key |-> <<Seoul, 0>>,
     now |-> 0, requested |-> FALSE, requests |-> 0, raised |-> FALSE,
     status |-> "none", computed |-> 0, prevFetch |-> NoFetch, frame |-> <<>>,
     data |-> NoData, view |-> ErrorView]

\* A new browser session: session_state starts with the defaults main sets.
NewSessionState == [coords |-> Seoul, refresh_count |-> 0]

Init ==
    /\ clock = 0
    /\ session_state = NewSessionState
    /\ cache = [k \in Keys |-> NoEntry]
    /\ lastFetch = [k \in Keys |-> NoFetch]
    /\ pass = NoPass

\* The pass once get_weather has been called with the key of the session.
Finish(unit, refresh, coords, refresh_count, net) ==
    LET key == <<coords, refresh_count>>
        call == get_weather(cache, key, clock, net)
        frame == IF call.requested
                 THEN (IF net.status = "ok" THEN FrameOf(net.data) ELSE <<>>)
                 ELSE lastFetch[key].frame
    IN /\ session_state' = [coords |-> coords, refresh_count |-> refresh_count]
       /\ cache' = call.cache
       /\ lastFetch' =
             IF call.requested
             THEN [lastFetch EXCEPT ![key] =
                     [some |-> TRUE, at |-> clock, returned |-> ~call.raised,
                      frame |-> frame]]
             ELSE lastFetch
       /\ pass' = [ran |-> TRUE, unit |-> unit, refresh |-> refresh, key |-> key,
                   now |-> clock, requested |-> call.requested,
                   requests |-> IF call.requested THEN 1 ELSE 0,
                   raised |-> call.raised,
                   status |-> IF call.requested THEN net.status ELSE "cached",
                   computed |-> call.computed,
                   prevFetch |-> lastFetch[key], frame |-> frame,
                   data |-> IF call.requested THEN net.data ELSE NoData,
                   view |-> IF call.raised THEN ErrorView
                            ELSE RenderView(call.payload, unit)]
       /\ UNCHANGED clock

\* One render pass of main; the network answers with one of Net when asked.
Main(unit, refresh, last_clicked, Net) ==
    /\ refresh => session_state.refresh_count < MaxRefresh
    /\ LET refresh_count == IF refresh THEN session_state.refresh_count + 1
                            ELSE session_state.refresh_count
           coords == IF last_clicked.some THEN last_clicked.val
                     ELSE session_state.coords
       IN IF CacheHit(cache, <<coords, refresh_count>>, clock)
          THEN Finish(unit, refresh, coords, refresh_count, [status |-> "ok", data |-> NoData])
          ELSE \E net \in Net : Finish(unit, refresh, coords, refresh_count, net)

Units == {"Celsius", "Fahrenheit"}

\* A render pass of the running application.
Render ==
    \E unit \in Units, refresh \in BOOLEAN :
        Main(unit, refresh, NoClick, AppNet)

\* Time passes between two passes.
Tick ==
    /\ clock < MaxTicks * Step
    /\ clock' = clock + Step
    /\ pass' = NoPass
    /\ UNCHANGED <<session_state, cache, lastFetch>>

\* The page is opened anew: a fresh session_state, the cache kept.
NewSession ==
    /\ session_state' = NewSessionState
    /\ pass' = NoPass
    /\ UNCHANGED <<clock, cache, lastFetch>>

Next == Render \/ Tick \/ NewSession

Spec == Init /\ [][Next]_vars

\* The fetch alone: the first pass of a session, at any time of the day, the
\* provider answering with any response.
FetchClocks == {h * Hour + d : h \in 0..(MaxN + 1), d \in {0, Step}}

InitFetch ==
    /\ clock \in FetchClocks
    /\ session_state = NewSessionState
    /\ cache = [k \in Keys |-> NoEntry]
    /\ lastFetch = [k \in Keys |-> NoFetch]
    /\ pass = NoPass

Fetch ==
    /\ ~pass.ran
    /\ \E unit \in Units, last_clicked \in {NoClick, Click(Busan)} :
          Main(unit, FALSE, last_clicked, FetchNet)

SpecFetch == InitFetch /\ [][Fetch]_vars

(* ------------------------------- properties ---------------------------- *)

\* The pass fetched over the network and the HTTP exchange succeeded.
Answered == pass.ran /\ pass.requested /\ pass.status = "ok"

\* The pass made a request that failed: a timeout or a non-success status.
FetchFailed == pass.ran /\ pass.requested /\ pass.status \in {"timeout", "http_error"}

NonDecreasing(rows) == \A i \in 1..(Len(rows) - 1) : rows[i].time <= rows[i + 1].time

\* Position k (counted from 1) splits the series at now.
SplitsAt(rows, k, now) ==
    /\ \A i \in 1..(k - 1) : rows[i].time < now
    /\ \A i \in k..Len(rows) : rows[i].time >= now

AllPast(rows, now) == \A i \in 1..Len(rows) : rows[i].time < now

\* Every hourly array of the response is there and empty.
AllEmpty(data) == \A k \in HourlyKeys : data.hourly[k].some /\ data.hourly[k].val = <<>>

\* The response leaves out at least one of the hourly arrays.
OmitsSome(data) == \E k \in HourlyKeys : ~data.hourly[k].some

\* C1: for an ascending series of n records of which exactly those from
\* position k on are at or after now, the window get_weather returns is the
\* records k .. min(k + 11, n) of the series (positions counted from 1), in
\* series order.
C1_WindowFromNow ==
    (Answered /\ ~pass.raised /\ NonDecreasing(pass.frame)) =>
        \A k \in 1..Len(pass.frame) :
            SplitsAt(pass.frame, k, pass.now) =>
                pass.view.df = SubSeq(pass.frame, k, Min(k + 11, Len(pass.frame)))

\* C1 witness: 24 hourly records, the sixth the first at or after now, and a
\* window of the twelve records 6 .. 17.
C1_Witness ==
    /\ Answered /\ ~pass.raised
    /\ Len(pass.frame) = 24 /\ NonDecreasing(pass.frame)
    /\ SplitsAt(pass.frame, 6, pass.now)
    /\ Len(pass.view.df) = 12
    /\ pass.view.df[1] = pass.frame[6] /\ pass.view.df[12] = pass.frame[17]

\* C2: when no record of the series is at or after now, the window is the
\* first min(12, n) records of the series, in series order.
C2_FallbackFirstRows ==
    (Answered /\ ~pass.raised /\ AllPast(pass.frame, pass.now)) =>
        pass.view.df = SubSeq(pass.frame, 1, Min(12, Len(pass.frame)))

\* C2 witness: 24 records, all in the past, and the window is records 1 .. 12.
C2_Witness ==
    /\ Answered /\ ~pass.raised
    /\ Len(pass.frame) = 24 /\ AllPast(pass.frame, pass.now)
    /\ Len(pass.view.df) = 12 /\ pass.view.df[12] = pass.frame[12]

\* C3 as claimed: a call within 600 seconds of the last network request of the
\* same (lat, lon, refresh counter) issues no request, whatever the outcome of
\* that request was.
C3_Original ==
    (pass.ran /\ pass.prevFetch.some /\ pass.now - pass.prevFetch.at < 600) =>
        ~pass.requested

\* C3 amended: a call within 600 seconds of the last network request of the
\* same (lat, lon, refresh counter) issues no request and is served the
\* memoised result, provided that request returned a result.
C3_NoSecondRequest ==
    (/\ pass.ran /\ pass.prevFetch.some /\ pass.prevFetch.returned
     /\ pass.now - pass.prevFetch.at < 600) =>
        /\ ~pass.requested
        /\ pass.status = "cached"
        /\ pass.computed = pass.prevFetch.at

\* C3 witness: a pass served from the cache some time after the fetch.
C3_Witness ==
    /\ pass.ran /\ pass.prevFetch.some /\ pass.prevFetch.returned
    /\ pass.prevFetch.at < pass.now /\ pass.now - pass.prevFetch.at < 600
    /\ ~pass.requested

\* C4 as claimed: a pass in which Refresh was pressed issues a network request.
C4_RefreshForcesRequest == (pass.ran /\ pass.refresh) => pass.requested

\* C5: a failed call stores nothing: a cache entry is written only by a pass
\* whose request succeeded, for the key of that pass, and holds what that
\* pass computed; the key of a pass that raised has no live entry; and the
\* call after a failed request of the same key issues a request again.
C5_FailureNotCached ==
    /\ [][\A k \in Keys :
            cache'[k] # cache[k] =>
                /\ pass'.requested /\ pass'.status = "ok" /\ ~pass'.raised
                /\ pass'.key = k
                /\ cache'[k] = [some |-> TRUE, at |-> clock,
                                value |-> [df |-> pass'.view.df,
                                           current |-> pass'.data.current_weather]]]_vars
    /\ []((pass.ran /\ pass.raised) => ~CacheHit(cache, pass.key, pass.now))
    /\ []((pass.ran /\ pass.prevFetch.some /\ ~pass.prevFetch.returned) => pass.requested)

\* C5 witness: the request of a key had failed, and the next call of that key
\* fetched again and its result is now in the cache.
C5_Witness ==
    /\ pass.ran /\ pass.prevFetch.some /\ ~pass.prevFetch.returned
    /\ pass.requested /\ ~pass.raised
    /\ cache[pass.key].some

\* C6: when the request fails, the pass shows the error and nothing after it
\* (no metrics, chart or table), makes exactly one request, and the
\* application can render again; a call that follows a failed request of its
\* key attempts the fetch again.
C6_FailureIsShown ==
    /\ FetchFailed =>
          /\ pass.raised
          /\ pass.view.error
          /\ ~pass.view.metrics /\ ~pass.view.chart /\ ~pass.view.table
          /\ pass.requests = 1
          /\ ENABLED Render
    /\ (pass.ran /\ pass.prevFetch.some /\ ~pass.prevFetch.returned) => pass.requests = 1

\* C6 witness: a pass whose request failed after the previous request of the
\* same key had failed too.
C6_Witness ==
    /\ FetchFailed /\ pass.view.error
    /\ pass.prevFetch.some /\ ~pass.prevFetch.returned

\* C7 as claimed: with all hourly arrays empty the window is empty and the
\* three metrics show "N/A", whatever current_weather holds.
C7_Original ==
    (Answered /\ AllEmpty(pass.data)) =>
        /\ ~pass.raised /\ pass.view.metrics
        /\ pass.view.df = <<>>
        /\ pass.view.temperature = NA
        /\ pass.view.condition = "N/A"
        /\ pass.view.precip = NA

\* C7 amended: with all hourly arrays empty the window is empty, the pass
\* renders without raising, condition and precipitation show "N/A", and the
\* temperature shows "N/A" exactly when current_weather holds no temperature;
\* otherwise it shows that temperature in the selected unit.
C7_EmptyHourly ==
    (Answered /\ AllEmpty(pass.data)) =>
        /\ ~pass.raised /\ pass.view.metrics
        /\ pass.view.df = <<>>
        /\ pass.view.condition = "N/A"
        /\ pass.view.precip = NA
        /\ pass.view.temperature.na <=> ~pass.data.current_weather.temperature.some
        /\ pass.data.current_weather.temperature.some =>
              pass.view.temperature.num =
                  IF pass.unit = "Fahrenheit"
                  THEN 320 + (pass.data.current_weather.temperature.val * 18) \div 10
                  ELSE pass.data.current_weather.temperature.val

\* C7 witness: empty hourly arrays and no current temperature: three "N/A".
C7_Witness ==
    /\ Answered /\ AllEmpty(pass.data)
    /\ ~pass.data.current_weather.temperature.some
    /\ pass.view.metrics
    /\ pass.view.temperature = NA /\ pass.view.condition = "N/A" /\ pass.view.precip = NA

\* C8 as claimed: a response that omits some hourly arrays yields an empty
\* window and get_weather does not raise.
C8_OmittedArrays ==
    (Answered /\ OmitsSome(pass.data)) => (~pass.raised /\ pass.view.df = <<>>)

\* C9 as claimed: the timestamps of the window are non-decreasing, whatever
\* the order of the time array.
C9_Original == (Answered /\ ~pass.raised) => NonDecreasing(pass.view.df)

\* C9 amended: the window keeps the order of the series, so its timestamps are
\* non-decreasing whenever those of the provider's time array are.
C9_OrderKept ==
    (Answered /\ ~pass.raised /\ NonDecreasing(pass.frame)) => NonDecreasing(pass.view.df)

\* C9 witness: an ascending series and a window of several rows of it.
C9_Witness ==
    /\ Answered /\ ~pass.raised /\ NonDecreasing(pass.frame)
    /\ Len(pass.view.df) >= 3
    /\ pass.view.df[1].time < pass.view.df[3].time

\* The window shown is the one get_weather selects from the series at time t.
WindowAsOf(t) ==
    \/ pass.view.df = <<>>
    \/ pass.view.df[1].time >= t
    \/ /\ SelectFromNow(pass.frame, t) = <<>>
       /\ pass.view.df = SubSeq(pass.frame, 1, Min(12, Len(pass.frame)))

\* C10 as claimed: the window a pass displays begins at or after the time of
\* that pass, or is the fallback of a series with no record at or after it.
C10_Original == (pass.ran /\ ~pass.raised) => WindowAsOf(pass.now)

\* C10 amended: the window a pass displays begins at or after the time at
\* which get_weather computed it, or is the fallback of a series with no
\* record at or after that time; that time is the time of the pass when the
\* pass fetched, and less than 600 seconds before it when the cache served.
C10_WindowAsOfFetch ==
    (pass.ran /\ ~pass.raised) =>
        /\ WindowAsOf(pass.computed)
        /\ pass.computed <= pass.now /\ pass.now - pass.computed < 600
        /\ pass.requested => pass.computed = pass.now

\* C10 witness: a window served from the cache whose first record is already
\* in the past of the pass that shows it.
C10_Witness ==
    /\ pass.ran /\ ~pass.raised /\ ~pass.requested
    /\ pass.view.df # <<>>
    /\ pass.computed <= pass.view.df[1].time
    /\ pass.view.df[1].time < pass.now

====
